---------------------------- MODULE Spec2Model ----------------------------
(***************************************************************************)
(* Model of binance_ohlcv_exporter.py: the retrying HTTP GET               *)
(* (_request_with_retry) and the kline pagination loop (fetch_klines).     *)
(*                                                                         *)
(* _request_with_retry is a state machine with one action per outcome of   *)
(* requests.get in one iteration of its for-loop.  fetch_klines is a state *)
(* machine with one action per stretch of code between two calls of       *)
(* _request_with_retry.  The transport (the upstream HTTP service) is the  *)
(* environment: each GET nondeterministically succeeds with a page, fails  *)
(* with a network error, or fails with an HTTP status.                     *)
(*                                                                         *)
(* Time is in milliseconds: open times are epoch ms as in the code, sleeps *)
(* are logged in ms (time.sleep(2 ** attempt) is logged as 2^attempt*1000, *)
(* time.sleep(0.15) as 150).                                               *)
(***************************************************************************)
EXTENDS Integers, Sequences, FiniteSets, TLC

(***************************************************************************)
(* Bounds of the model.                                                    *)
(***************************************************************************)
MaxTime == 2        \* open times of mocked rows and end_ms: 0..MaxTime
MaxPages == 2       \* page requests explored per fetch_klines call
MaxRetries == 3     \* largest `retries` argument of a direct call

(***************************************************************************)
(* Program constants.                                                      *)
(***************************************************************************)
limit == 1000              \* fetch_klines: limit = 1000
DefaultRetries == 3        \* _request_with_retry: retries: int = 3
InterPageDelayMs == 150    \* fetch_klines: time.sleep(0.15)

VARIABLES
    transport,   \* the environment: which upstream answers the GETs
    retries,     \* _request_with_retry: the `retries` argument
    attempt,     \* _request_with_retry: the loop variable
    rpc,         \* _request_with_retry: "idle" | "get" | "returned" | "raised"
    rr_value,    \* _request_with_retry: the value returned
    rr_error,    \* _request_with_retry: the exception raised
    getlog,      \* outcome of every requests.get of the current call, in order
    sleeps,      \* argument (ms) of every time.sleep so far, in order
    fpc,         \* fetch_klines: "none" | "loop" | "wait" | "done" | "raised"
    symbol,      \* fetch_klines: argument
    interval,    \* fetch_klines: argument
    start_ms,    \* fetch_klines: argument
    end_ms,      \* fetch_klines: argument
    next_start,  \* fetch_klines: the cursor
    out,         \* fetch_klines: the accumulator
    requests,    \* params of every _request_with_retry call made by fetch_klines
    result,      \* fetch_klines: the list returned
    args,        \* main: the parsed command line
    clock,       \* the environment: the instant datetime.now() returns
    mpc,         \* main: "none" | "range" | "pair" | "fetch" | "summary" |
                 \*       "done" | "failed"
    m_error,     \* main: the exception that ended it
    range_ms,    \* main: (start_ms, end_ms) as get_range returned it
    si,          \* main: index of the current symbol in args.symbols
    ii,          \* main: index of the current interval in args.intervals
    klines_by_interval,  \* main: the series of the current symbol
    summary_rows,        \* main: the rows collected for the summary file
    files,       \* the file system: path -> lines of the file (and a torn last one)
    writes,      \* path of every file written so far, in order
    fetched,     \* (symbol, interval) of every fetch_klines call of main
    kl_log,      \* the series every fetch_klines call of main returned
    dirs,        \* the file system: the directories that exist
    cm_klines,   \* calc_metrics called directly: the klines_1h argument
    cm_result    \* calc_metrics called directly: <<>>, then <<the tuple returned>>

retryVars == <<retries, attempt, rpc, rr_value, rr_error, getlog>>
fetchVars == <<fpc, symbol, interval, start_ms, end_ms, next_start, out,
               requests, result>>
mainVars == <<args, clock, mpc, m_error, range_ms, si, ii, klines_by_interval,
              summary_rows, files, writes, fetched, kl_log, dirs, cm_klines,
              cm_result>>

vars == <<transport, retryVars, sleeps, fetchVars, mainVars>>

(***************************************************************************)
(* Raw API rows and parsed records.  A raw row carries the open time as an *)
(* integer and the prices and volumes as decimal text; the close stands    *)
(* for the four prices, and the two volumes that calc_metrics reads are    *)
(* carried with one text each.                                             *)
(***************************************************************************)
Times == 0..MaxTime
CloseTexts == {"100", "105"}
VolumeTexts == {"200"}
QuoteTexts == {"5000"}
Rows == [open_time : Times, close : CloseTexts, volume : VolumeTexts,
         quote_volume : QuoteTexts]

\* float(text) for the decimal texts of the model
ParseFloat(text) ==
    CASE text = "100" -> 100
      [] text = "105" -> 105
      [] text = "200" -> 200
      [] text = "5000" -> 5000

\* Kline(open_time_ms=int(row[0]), ..., close=float(row[4]),
\*       volume=float(row[5]), ..., quote_volume=float(row[7]), ...)
ParseRow(row) ==
    [open_time_ms |-> row.open_time, close |-> ParseFloat(row.close),
     volume |-> ParseFloat(row.volume),
     quote_volume |-> ParseFloat(row.quote_volume)]

ParsePage(data) == [i \in 1..Len(data) |-> ParseRow(data[i])]

(***************************************************************************)
(* Post-processing of fetch_klines.                                        *)
(***************************************************************************)
\* The rows are folded by halves, and the halves are function applications:
\* a function's arguments are values, computed once.
\* a dedup that keeps the first row seen for an open time
DedupRange_FirstWins(s, lo, hi) ==
    LET D[l \in Nat, h \in Nat] ==
            IF h <= l + 1
            THEN (s[l].open_time_ms :> s[l]) @@ (s[h].open_time_ms :> s[h])
            ELSE D[l, (l + h) \div 2] @@ D[(l + h) \div 2 + 1, h]
    IN  D[lo, hi]

\* dedup[k.open_time_ms] = k for k in s[lo..hi], in order: later rows overwrite
DedupRange(s, lo, hi) ==
    LET D[l \in Nat, h \in Nat] ==
            IF h <= l + 1
            THEN (s[h].open_time_ms :> s[h]) @@ (s[l].open_time_ms :> s[l])
            ELSE D[(l + h) \div 2 + 1, h] @@ D[l, (l + h) \div 2]
    IN  D[lo, hi]

Dedup(s) == IF Len(s) = 0 THEN <<>> ELSE DedupRange(s, 1, Len(s))

\* the largest open time of s[lo..hi]
MaxRange(s, lo, hi) ==
    LET Max2[a \in Nat, b \in Nat] == IF a >= b THEN a ELSE b
        M[l \in Nat, h \in Nat] ==
            IF h <= l + 1 THEN Max2[s[l].open_time_ms, s[h].open_time_ms]
            ELSE Max2[M[l, (l + h) \div 2], M[(l + h) \div 2 + 1, h]]
    IN  M[lo, hi]

\* sorted(dedup.keys()): the keys are naturals, s is the list they come from;
\* dense keys are picked out of 0..max, sparse keys are placed by their rank
SortedKeys(keys, s) ==
    IF Len(s) = 0 THEN <<>>
    ELSE LET hi == MaxRange(s, 1, Len(s))
         IN  IF hi < 4 * Len(s)
             THEN SelectSeq([i \in 1..(hi + 1) |-> i - 1], LAMBDA t : t \in keys)
             ELSE [i \in 1..Cardinality(keys) |->
                      CHOOSE t \in keys : Cardinality({u \in keys : u <= t}) = i]

\* out_sorted = [dedup[t] for t in sorted(dedup.keys())]; dedup and the sorted
\* keys are bound as function arguments
DedupSorted(s) ==
    LET InOrder[dedup \in {Dedup(s)}] ==
            LET ByKey[keys \in {SortedKeys(DOMAIN dedup, s)}] ==
                    [i \in 1..Len(keys) |-> dedup[keys[i]]]
            IN  ByKey[SortedKeys(DOMAIN dedup, s)]
    IN  InOrder[Dedup(s)]

\* a trim that lets the first open time after end_ms through
TrimEnd_OneLate(s, e) == SelectSeq(s, LAMBDA k : k.open_time_ms <= e + 1)

\* [k for k in out_sorted if k.open_time_ms <= end_ms]
TrimEnd(s, e) == SelectSeq(s, LAMBDA k : k.open_time_ms <= e)

\* a post-processing that forgets the trim
PostProcess_NoTrim(s, e) == DedupSorted(s)
\* a post-processing that only trims
PostProcess_TrimOnly(s, e) == TrimEnd(s, e)

PostProcess(s, e) == TrimEnd(DedupSorted(s), e)

(***************************************************************************)
(* The transport.  A mocked transport answers a successful GET with any    *)
(* page of MockPages.  An upstream transport holds a fixed set of candles  *)
(* (transport.candles, a set of open times) and answers with the at most   *)
(* `limit` earliest candles whose open time lies in [startTime, endTime].  *)
(***************************************************************************)
\* every page of at most two rows, in any order, duplicates included
ShortPages == {<<>>} \cup [1..1 -> Rows] \cup [1..2 -> Rows]

\* a page of exactly `limit` rows: limit-1 copies of `fill`, then `last`
FullPage(fill, last) == [i \in 1..limit |-> IF i < limit THEN fill ELSE last]

\* full pages whose rows open at or before, or at or after, their final row
FullPages ==
    {FullPage([open_time |-> t, close |-> "100", volume |-> "200",
               quote_volume |-> "5000"],
              [open_time |-> l, close |-> "105", volume |-> "200",
               quote_volume |-> "5000"]) :
        t \in {0, MaxTime}, l \in Times}

MockPages == ShortPages \cup FullPages

\* the ascending list of the naturals of S that lie in lo..hi
Ascending(S, lo, hi) ==
    IF hi < lo THEN <<>>
    ELSE SelectSeq([i \in 1..(hi - lo + 1) |-> lo + i - 1], LAMBDA t : t \in S)

FirstN(s, n) == IF Len(s) <= n THEN s ELSE SubSeq(s, 1, n)

\* the row the upstream holds for the candle that opens at t
UpstreamRow(t) ==
    [open_time |-> t,
     close |-> IF (t + t \div 3600000) % 2 = 0 THEN "100" ELSE "105",
     volume |-> "200", quote_volume |-> "5000"]

UpstreamPage(candles, params) ==
    LET ts == FirstN(Ascending(candles, params.startTime, params.endTime), params.limit)
    IN  [i \in 1..Len(ts) |-> UpstreamRow(ts[i])]

\* the page of an exchange that holds, for the pair of the request, the
\* candles whose open times are listed in ascending order
ExchangePage(listing, params) ==
    LET ts == FirstN(SelectSeq(listing[<<params.symbol, params.interval>>],
                               LAMBDA t : params.startTime <= t /\ t <= params.endTime),
                     params.limit)
    IN  [i \in 1..Len(ts) |-> UpstreamRow(ts[i])]

\* the bodies the transport may send in answer to the current GET
OfferedPages ==
    CASE transport.kind = "upstream" ->
             {UpstreamPage(transport.candles, requests[Len(requests)])}
      [] transport.kind = "fixed" -> {transport.body}
      [] transport.kind = "exchange" ->
             {ExchangePage(transport.candles, requests[Len(requests)])}
      [] OTHER -> MockPages

NetworkErrors == {"ConnectionError", "Timeout"}
\* HTTP errors other than 429; "HTTPError" is an HTTPError whose response is None
OtherHttpErrors == {"HTTP404", "HTTP500", "HTTPError"}
RetryableErrors == NetworkErrors \cup {"HTTP429"}

(***************************************************************************)
(* _request_with_retry                                                     *)
(***************************************************************************)
\* a backoff that starts at 2 ** 0
RetryWait_FromZero(a) == (2 ^ (a - 1)) * 1000

\* wait = 2 ** attempt, in ms
RetryWait(a) == (2 ^ a) * 1000

\* a budget check that is off by one: one attempt too many
NetErrorRaises_Late(a, n) == a = n + 1

\* except (requests.ConnectionError, requests.Timeout): if attempt == retries: raise
NetErrorRaises(a, n) == a = n

\* a loop that grants the rate-limited call one more attempt
LoopContinues_OneMore(a, n) == a <= n

\* for attempt in range(1, retries + 1): is there a next iteration after attempt a
LoopContinues(a, n) == a < n

\* a retry policy that also retries server errors
IsRateLimited_Or5xx(e) == e \in {"HTTP429", "HTTP500"}

\* exc.response is not None and exc.response.status_code == 429
IsRateLimited(e) == e = "HTTP429"

\* return r.json()
JsonBody(body) == body

\* entry of _request_with_retry(url, params, timeout, retries=n)
EnterRetry(n) ==
    /\ retries' = n
    /\ getlog' = <<>>
    /\ rr_error' = "none"
    /\ rr_value' = <<>>
    /\ IF n >= 1
       THEN attempt' = 1 /\ rpc' = "get"
       ELSE attempt' = 0 /\ rpc' = "returned"      \* empty range: return []

\* a direct call, as the tests make it
RetryCall ==
    /\ rpc = "idle"
    /\ fpc = "none"
    /\ \E n \in 0..MaxRetries : EnterRetry(n)
    /\ UNCHANGED <<transport, sleeps, fetchVars, mainVars>>

\* requests.get succeeds, raise_for_status passes, return r.json()
GetOk ==
    /\ rpc = "get"
    /\ \E page \in OfferedPages :
         /\ rr_value' = JsonBody(page)
         /\ getlog' = Append(getlog, "ok")
         /\ rpc' = "returned"
    /\ UNCHANGED <<transport, retries, attempt, rr_error, sleeps, fetchVars,
                   mainVars>>

\* requests.get raises ConnectionError or Timeout
GetNetErr ==
    /\ rpc = "get"
    /\ \E e \in NetworkErrors :
         /\ getlog' = Append(getlog, e)
         /\ IF NetErrorRaises(attempt, retries)
            THEN /\ rpc' = "raised"
                 /\ rr_error' = e
                 /\ UNCHANGED <<attempt, sleeps>>
            ELSE /\ sleeps' = Append(sleeps, RetryWait(attempt))
                 /\ attempt' = attempt + 1
                 /\ UNCHANGED <<rpc, rr_error>>
    /\ UNCHANGED <<transport, retries, rr_value, fetchVars, mainVars>>

\* raise_for_status raises HTTPError e: the `except requests.HTTPError` branch
HttpError(e) ==
    /\ rpc = "get"
    /\ getlog' = Append(getlog, e)
    /\ IF IsRateLimited(e)
       THEN /\ sleeps' = Append(sleeps, RetryWait(attempt))
            /\ IF LoopContinues(attempt, retries)
               THEN /\ attempt' = attempt + 1
                    /\ UNCHANGED <<rpc, rr_value>>
               ELSE /\ rpc' = "returned"           \* loop exhausted: return []
                    /\ rr_value' = <<>>
                    /\ UNCHANGED attempt
            /\ UNCHANGED rr_error
       ELSE /\ rpc' = "raised"
            /\ rr_error' = e
            /\ UNCHANGED <<attempt, rr_value, sleeps>>
    /\ UNCHANGED <<transport, retries, fetchVars, mainVars>>

\* the response has status 429
Get429 == HttpError("HTTP429")

\* the response has another error status
GetHttpErr == \E e \in OtherHttpErrors : HttpError(e)

(***************************************************************************)
(* fetch_klines                                                            *)
(***************************************************************************)
Params(sym, itv, s, e) ==
    [symbol |-> sym, interval |-> itv, startTime |-> s, endTime |-> e,
     limit |-> limit]

\* last_open = int(data[-1][0])
LastOpen(data) == data[Len(data)].open_time

\* loop exits that a slip in the condition would give
PageEndsLoop_LenLe(data, e) == LastOpen(data) >= e \/ Len(data) <= limit
PageEndsLoop_NoLen(data, e) == LastOpen(data) >= e
PageEndsLoop_Strict(data, e) == LastOpen(data) > e \/ Len(data) < limit

\* if last_open >= end_ms or len(data) < limit: break
PageEndsLoop(data, e) == LastOpen(data) >= e \/ Len(data) < limit

\* a cursor that skips a millisecond
NextCursor_TwoSteps(data) == LastOpen(data) + 2
\* a cursor that stays on the last seen open time
NextCursor_NoStep(data) == LastOpen(data)

\* next_start = last_open + 1
NextCursor(data) == LastOpen(data) + 1

\* loop head: build params and call _request_with_retry(url, params, timeout)
FetchRequest ==
    /\ fpc = "loop"
    /\ Len(requests) < MaxPages
    /\ requests' = Append(requests, Params(symbol, interval, next_start, end_ms))
    /\ EnterRetry(DefaultRetries)
    /\ fpc' = "wait"
    /\ UNCHANGED <<transport, sleeps, symbol, interval, start_ms, end_ms,
                   next_start, out, result, mainVars>>

\* _request_with_retry returned `data`: the rest of the loop body, and the
\* post-processing when the loop ends
FetchPage ==
    /\ fpc = "wait"
    /\ rpc = "returned"
    /\ LET data == rr_value IN
         IF Len(data) = 0
         THEN /\ result' = PostProcess(out, end_ms)
              /\ fpc' = "done"
              /\ UNCHANGED <<out, next_start, sleeps>>
         ELSE /\ out' = out \o ParsePage(data)
              /\ IF PageEndsLoop(data, end_ms)
                 THEN /\ result' = PostProcess(out', end_ms)
                      /\ fpc' = "done"
                      /\ UNCHANGED <<next_start, sleeps>>
                 ELSE /\ next_start' = NextCursor(data)
                      /\ sleeps' = Append(sleeps, InterPageDelayMs)
                      /\ fpc' = "loop"
                      /\ UNCHANGED result
    /\ rpc' = "idle"
    /\ rr_value' = <<>>
    /\ UNCHANGED <<transport, retries, attempt, rr_error, getlog,
                   symbol, interval, start_ms, end_ms, requests, mainVars>>

\* _request_with_retry raised: fetch_klines has no handler, the error propagates
FetchRaise ==
    /\ fpc = "wait"
    /\ rpc = "raised"
    /\ fpc' = "raised"
    /\ UNCHANGED <<transport, retryVars, sleeps, symbol, interval,
                   start_ms, end_ms, next_start, out, requests, result, mainVars>>

(***************************************************************************)
(* Specifications.                                                         *)
(***************************************************************************)
MockTransport == [kind |-> "mock", candles |-> {}, body |-> <<>>]

StartChoices == {0, 1}

\* no run of main and no direct call of calc_metrics is in progress
NoArgs == [days |-> 0, start |-> <<>>, end |-> <<>>, symbols |-> <<>>,
           intervals |-> <<>>]

InitMainIdle ==
    /\ args = NoArgs
    /\ clock = [ms |-> 0, us |-> 0]
    /\ mpc = "none"
    /\ m_error = "none"
    /\ range_ms = <<0, 0>>
    /\ si = 0
    /\ ii = 0
    /\ klines_by_interval = <<>>
    /\ summary_rows = <<>>
    /\ files = <<>>
    /\ writes = <<>>
    /\ fetched = <<>>
    /\ kl_log = <<>>
    /\ dirs = {}
    /\ cm_klines = <<>>
    /\ cm_result = <<>>

InitRetryVars ==
    /\ retries = DefaultRetries
    /\ attempt = 0
    /\ rpc = "idle"
    /\ rr_value = <<>>
    /\ rr_error = "none"
    /\ getlog = <<>>
    /\ sleeps = <<>>

\* fetch_klines(symbol, interval, start_ms, end_ms, timeout) against mocked pages
Init ==
    /\ transport = MockTransport
    /\ InitRetryVars
    /\ InitMainIdle
    /\ symbol = "BTCUSDT"
    /\ interval = "1h"
    /\ start_ms \in StartChoices
    /\ end_ms \in Times
    /\ fpc = "loop"
    /\ next_start = start_ms
    /\ out = <<>>
    /\ requests = <<>>
    /\ result = <<>>

\* the transport answers every GET with a page or a non-retryable error
Next ==
    \/ FetchRequest
    \/ GetOk
    \/ GetHttpErr
    \/ FetchPage
    \/ FetchRaise

Spec == Init /\ [][Next]_vars

\* _request_with_retry(url, params, timeout, retries) called directly
InitRetry ==
    /\ transport \in [kind : {"fixed"}, candles : {{}}, body : ShortPages]
    /\ InitRetryVars
    /\ InitMainIdle
    /\ symbol = "BTCUSDT"
    /\ interval = "1h"
    /\ fpc = "none"
    /\ start_ms = 0
    /\ end_ms = 0
    /\ next_start = 0
    /\ out = <<>>
    /\ requests = <<>>
    /\ result = <<>>

NextRetry ==
    \/ RetryCall
    \/ GetOk
    \/ GetNetErr
    \/ Get429
    \/ GetHttpErr

SpecRetry == InitRetry /\ [][NextRetry]_vars

(***************************************************************************)
(* fetch_klines against an upstream that holds a fixed set of candles and  *)
(* whose transient failures (network errors, 429) end within the retry     *)
(* budget of every page request.                                           *)
(***************************************************************************)
Progression(base, step, n) == {base + j * step : j \in 0..(n - 1)}

UpstreamSets ==
    {Progression(b, st, n) \ (IF hole THEN {b + st} ELSE {}) :
        b \in {0, 3}, st \in {1, 2}, n \in {1, limit, limit + 1},
        hole \in BOOLEAN}

InitUpstream ==
    /\ transport \in [kind : {"upstream"}, candles : UpstreamSets, body : {<<>>}]
    /\ InitRetryVars
    /\ InitMainIdle
    /\ symbol = "BTCUSDT"
    /\ interval = "1h"
    /\ start_ms \in {0, 4}
    /\ end_ms \in {limit + 2, 2 * limit + 10}
    /\ fpc = "loop"
    /\ next_start = start_ms
    /\ out = <<>>
    /\ requests = <<>>
    /\ result = <<>>

NextUpstream ==
    \/ FetchRequest
    \/ GetOk
    \/ (attempt < retries /\ GetNetErr)
    \/ (attempt < retries /\ Get429)
    \/ FetchPage

SpecUpstream == InitUpstream /\ [][NextUpstream]_vars

(***************************************************************************)
(* Claims about _request_with_retry, checked under SpecRetry.  There       *)
(* getlog and sleeps are the GETs and the sleeps of the one direct call.   *)
(***************************************************************************)
Last(s) == s[Len(s)]

AllIn(s, S) == \A i \in 1..Len(s) : s[i] \in S

\* C7: when every GET fails with a connection error or a timeout, a call with
\* retries = N >= 1 keeps trying while fewer than N GETs were made, raises the
\* last error once exactly N GETs were made, and never makes more than N GETs
\* nor returns a value.
C7_RetryExhaustion ==
    (rpc # "idle" /\ retries >= 1 /\ AllIn(getlog, NetworkErrors)) =>
        /\ Len(getlog) <= retries
        /\ Len(getlog) < retries => rpc = "get"
        /\ Len(getlog) = retries => rpc = "raised" /\ rr_error = Last(getlog)
        /\ rpc # "returned"

C7_Witness ==
    /\ retries = 2
    /\ getlog = <<"ConnectionError", "Timeout">>
    /\ rpc = "raised"
    /\ rr_error = "Timeout"

\* C8: when the retry budget is used up and the final attempt was answered
\* with HTTP 429, the call does not return a value.
C8_RateLimitExhaustionFails ==
    ~ /\ rpc = "returned"
      /\ retries >= 1
      /\ Len(getlog) = retries
      /\ Last(getlog) = "HTTP429"

\* C9: when the GETs of a call fail with retryable errors (connection error,
\* timeout, 429) and then one succeeds, the call returns the body of that
\* response, and it has slept once after each failed GET, 2^k seconds after
\* the k-th; with retries = 3 and two failures that is 3 GETs and sleeps of
\* 2 s then 4 s.
C9_RetryThenSuccess ==
    (getlog # <<>> /\ Last(getlog) = "ok") =>
        /\ rpc = "returned"
        /\ rr_value = transport.body
        /\ AllIn(SubSeq(getlog, 1, Len(getlog) - 1), RetryableErrors)
        /\ Len(sleeps) = Len(getlog) - 1
        /\ \A k \in 1..Len(sleeps) : sleeps[k] = (2 ^ k) * 1000
        /\ (retries = 3 /\ Len(getlog) = 3) => sleeps = <<2000, 4000>>

C9_Witness ==
    /\ retries = 3
    /\ getlog = <<"ConnectionError", "HTTP429", "ok">>
    /\ rpc = "returned"
    /\ Len(rr_value) = 2
    /\ sleeps = <<2000, 4000>>

\* C10: an HTTP error other than 429 is raised by the attempt that received
\* it: it is the last GET of the call, the call has raised that error, and no
\* sleep follows it (the sleeps are those of the attempts before it); when it
\* comes on the first attempt exactly one GET was made and nothing slept.
C10_NonRetryableImmediate ==
    \A i \in 1..Len(getlog) :
        getlog[i] \in OtherHttpErrors =>
            /\ i = Len(getlog)
            /\ rpc = "raised"
            /\ rr_error = getlog[i]
            /\ Len(sleeps) = i - 1

C10_Witness ==
    /\ getlog = <<"HTTP404">>
    /\ rpc = "raised"
    /\ rr_error = "HTTP404"
    /\ sleeps = <<>>

(***************************************************************************)
(* Claims about fetch_klines.                                              *)
(***************************************************************************)
\* the series an upstream holding `candles` has in [s, e], ascending
UpstreamSeries(candles, s, e) ==
    LET ts == Ascending(candles, s, e)
    IN  [i \in 1..Len(ts) |-> ParseRow(UpstreamRow(ts[i]))]

\* C1 (SpecUpstream): against an upstream that holds a fixed set of candles
\* and answers with the at most `limit` earliest candles in
\* [startTime, endTime], every page request succeeding within its retry
\* budget, fetch_klines returns exactly the upstream candles with
\* start_ms <= open_time <= end_ms, each once, ascending, however many pages
\* it took.
C1_Complete ==
    fpc = "done" => result = UpstreamSeries(transport.candles, start_ms, end_ms)

\* two pages were needed, a retry happened, and more than `limit` candles came back
C1_Witness ==
    /\ fpc = "done"
    /\ Len(requests) = 2
    /\ Len(result) > limit
    /\ Len(sleeps) >= 3

StrictlyIncreasing(s) ==
    \A i \in 1..(Len(s) - 1) : s[i].open_time_ms < s[i + 1].open_time_ms

NoDuplicateOpenTime(s) ==
    \A i, j \in 1..Len(s) : s[i].open_time_ms = s[j].open_time_ms => i = j

\* C2 (Spec): for any pages (unsorted, overlapping, with rows beyond the
\* range), the series fetch_klines returns is strictly increasing in
\* open_time, has no two records with the same open_time, and every record
\* has open_time <= end_ms.
C2_SortedUniqueTrimmed ==
    fpc = "done" =>
        /\ StrictlyIncreasing(result)
        /\ NoDuplicateOpenTime(result)
        /\ \A i \in 1..Len(result) : result[i].open_time_ms <= end_ms

\* a full page whose rows lie beyond end_ms and after its final row, then a
\* page that is unsorted and repeats the open time of that final row
C2_Witness ==
    /\ fpc = "done"
    /\ Len(out) = limit + 2
    /\ out[1].open_time_ms > end_ms
    /\ out[1].open_time_ms > out[limit].open_time_ms
    /\ out[limit + 1].open_time_ms > out[limit + 2].open_time_ms
    /\ out[limit + 2].open_time_ms = out[limit].open_time_ms
    /\ Len(result) = 2

\* C3 as claimed (Spec): every record of the returned series satisfies
\* start_ms <= open_time <= end_ms, whatever pages the upstream returns.
C3_WithinRange ==
    fpc = "done" =>
        \A i \in 1..Len(result) :
            start_ms <= result[i].open_time_ms /\ result[i].open_time_ms <= end_ms

\* C3 as amended (Spec): every record of the returned series satisfies
\* open_time <= end_ms whatever pages the upstream returns, and
\* start_ms <= open_time when no fetched row opens before start_ms
\* (fetch_klines trims the tail only).
C3_UpperBoundAndLowerIfFetched ==
    fpc = "done" =>
        /\ \A i \in 1..Len(result) : result[i].open_time_ms <= end_ms
        /\ (\A j \in 1..Len(out) : start_ms <= out[j].open_time_ms) =>
              \A i \in 1..Len(result) : start_ms <= result[i].open_time_ms

\* a row beyond end_ms and a row at start_ms were fetched, none below start_ms;
\* the row at start_ms is returned
C3_Witness ==
    /\ fpc = "done"
    /\ start_ms = 1
    /\ end_ms = 1
    /\ Len(out) = 2
    /\ out[1].open_time_ms = 2
    /\ out[2].open_time_ms = 1
    /\ Len(result) = 1
    /\ result[1].open_time_ms = 1

\* C4 (Spec): for every open_time <= end_ms that occurs in a fetched row, the
\* result holds exactly one record with that open_time, and it is the last
\* such row in fetch order.
C4_LastSeenWins ==
    fpc = "done" =>
        \A i \in 1..Len(out) :
            ( /\ out[i].open_time_ms <= end_ms
              /\ \A j \in (i + 1)..Len(out) : out[j].open_time_ms # out[i].open_time_ms )
            => /\ \E k \in 1..Len(result) : result[k] = out[i]
               /\ Cardinality({k \in 1..Len(result) :
                                 result[k].open_time_ms = out[i].open_time_ms}) = 1

\* the same open time in one page and again in the next page, with another
\* close: the record of the next page is the one returned
C4_Witness ==
    /\ fpc = "done"
    /\ Len(out) = limit + 1
    /\ out[1].open_time_ms = out[limit].open_time_ms
    /\ out[limit].open_time_ms = out[limit + 1].open_time_ms
    /\ out[limit + 1].open_time_ms <= end_ms
    /\ out[limit].close = 105
    /\ out[limit + 1].close = 100
    /\ result = <<out[limit + 1]>>

\* C5 (Spec): a non-empty page with fewer than `limit` rows ends the
\* pagination: fetch_klines returns on it without a further page request or
\* sleep, even when its last open_time is < end_ms, and every open time of the
\* page that is <= end_ms is in the result.
C5_ShortPageEnds ==
    [][ ( /\ fpc = "wait"
          /\ rpc = "returned"
          /\ Len(rr_value) > 0
          /\ Len(rr_value) < limit )
        => /\ fpc' = "done"
           /\ requests' = requests
           /\ sleeps' = sleeps
           /\ \A i \in 1..Len(rr_value) :
                 rr_value[i].open_time <= end_ms =>
                    \E k \in 1..Len(result') :
                       result'[k].open_time_ms = rr_value[i].open_time ]_vars

\* the second page had one row, which opens before end_ms, and the call returned
C5_Witness ==
    /\ fpc = "done"
    /\ Len(requests) = 2
    /\ Len(out) = limit + 1
    /\ out[limit + 1].open_time_ms < end_ms
    /\ Len(result) >= 1

\* C6 (Spec): a page of exactly `limit` rows whose last row has
\* open_time >= end_ms ends the pagination: fetch_klines returns on it, with
\* no further page request and no inter-page delay.
C6_FullPageAtEndEnds ==
    [][ ( /\ fpc = "wait"
          /\ rpc = "returned"
          /\ Len(rr_value) = limit
          /\ rr_value[limit].open_time >= end_ms )
        => /\ fpc' = "done"
           /\ requests' = requests
           /\ sleeps' = sleeps ]_vars

\* one full page whose last row opens exactly at end_ms, one request, no sleep
C6_Witness ==
    /\ fpc = "done"
    /\ Len(requests) = 1
    /\ Len(out) = limit
    /\ out[limit].open_time_ms = end_ms
    /\ sleeps = <<>>


(***************************************************************************)
(* fetch_klines against an upstream whose GETs may fail in every way at    *)
(* every attempt, with no promise that the failures end.                   *)
(***************************************************************************)
FaultySets == {Progression(0, 1, 1), Progression(0, 1, limit + 1)}

InitFaulty ==
    /\ transport \in [kind : {"upstream"}, candles : FaultySets, body : {<<>>}]
    /\ InitRetryVars
    /\ InitMainIdle
    /\ symbol = "BTCUSDT"
    /\ interval = "1h"
    /\ start_ms = 0
    /\ end_ms = 2 * limit + 10
    /\ fpc = "loop"
    /\ next_start = start_ms
    /\ out = <<>>
    /\ requests = <<>>
    /\ result = <<>>

NextFaulty ==
    \/ FetchRequest
    \/ GetOk
    \/ GetNetErr
    \/ Get429
    \/ GetHttpErr
    \/ FetchPage
    \/ FetchRaise

SpecFaulty == InitFaulty /\ [][NextFaulty]_vars

\* C11: once _request_with_retry has given up on a page (its last GET failed
\* and no further GET of that call is coming), fetch_klines fails with that
\* same error: the call has raised the error of its last GET, fetch_klines
\* neither goes on to another page nor finishes, and no series is returned.
C11_FailurePropagates ==
    (getlog # <<>> /\ Last(getlog) # "ok" /\ rpc # "get") =>
        /\ rpc = "raised"
        /\ rr_error = Last(getlog)
        /\ fpc \in {"wait", "raised"}
        /\ result = <<>>

\* res is the deduplicated (last row wins), ascending, end-trimmed content of s
IsProcessedContent(res, s, e) ==
    /\ StrictlyIncreasing(res)
    /\ \A k \in 1..Len(res) :
          /\ res[k].open_time_ms <= e
          /\ \E j \in 1..Len(s) : res[k] = s[j]
    /\ \A i \in 1..Len(s) :
          ( /\ s[i].open_time_ms <= e
            /\ \A j \in (i + 1)..Len(s) : s[j].open_time_ms # s[i].open_time_ms )
          => \E k \in 1..Len(res) : res[k] = s[i]

\* C12 (Spec): an empty page ends the loop without error: fetch_klines
\* returns on it with no further request or sleep; when it is the first page
\* the result is the empty series, otherwise the result is the deduplicated,
\* sorted, end-trimmed content of the pages fetched before it.
C12_EmptyPageEnds ==
    [][ ( /\ fpc = "wait"
          /\ rpc = "returned"
          /\ Len(rr_value) = 0 )
        => /\ fpc' = "done"
           /\ requests' = requests
           /\ sleeps' = sleeps
           /\ out' = out
           /\ Len(requests) = 1 => result' = <<>>
           /\ IsProcessedContent(result', out, end_ms) ]_vars

\* a full first page whose rows repeat an open time beyond end_ms and end
\* with an earlier one, then an empty page: the earlier row is the result
C12_Witness ==
    /\ fpc = "done"
    /\ Len(requests) = 2
    /\ Len(out) = limit
    /\ out[1].open_time_ms > end_ms
    /\ out[limit].open_time_ms < end_ms
    /\ result = <<out[limit]>>

(***************************************************************************)
(* get_range.  An instant (a datetime in UTC) is [ms, us]: ms * 1000 + us  *)
(* microseconds after the epoch, with us in 0..999 and ms negative before  *)
(* the epoch.  A binary floating-point number is a sequence of bits, most  *)
(* significant first, with the exponent of its last bit.                   *)
(***************************************************************************)
DayMs == 86400000           \* dt.timedelta(days=1), in ms
MantissaBits == 53          \* significand of a Python float (IEEE 754 double)
MaxDays == 3                \* largest --days explored

RECURSIVE IntBits(_)
\* the binary digits of the natural n, none for 0
IntBits(n) == IF n = 0 THEN <<>> ELSE Append(IntBits(n \div 2), n % 2)

\* bits with zeros in front, n digits in all
PadBits(bits, n) == [i \in 1..(n - Len(bits)) |-> 0] \o bits

RECURSIVE FracBits(_, _, _, _)
\* the next 10 * k binary digits of r / d (0 <= r < d) after acc, and what
\* remains; ten digits at a time
FracBits(r, d, k, acc) ==
    IF k = 0 THEN [bits |-> acc, rem |-> r]
    ELSE FracBits((r * 1024) % d, d, k - 1,
                  acc \o PadBits(IntBits((r * 1024) \div d), 10))

RECURSIVE BitsToInt(_)
BitsToInt(bits) ==
    IF Len(bits) = 0 THEN 0
    ELSE 2 * BitsToInt(SubSeq(bits, 1, Len(bits) - 1)) + bits[Len(bits)]

\* bits + 1
IncBits(bits) ==
    IF \A i \in 1..Len(bits) : bits[i] = 1
    THEN <<1>> \o [i \in 1..Len(bits) |-> 0]
    ELSE LET z == CHOOSE i \in 1..Len(bits) :
                      bits[i] = 0 /\ \A j \in (i + 1)..Len(bits) : bits[j] = 1
         IN  [i \in 1..Len(bits) |->
                 IF i < z THEN bits[i] ELSE IF i = z THEN 1 ELSE 0]

\* bits * k for a small k and more than 40 bits, in limbs of 20 digits
MulBits(bits, k) ==
    LET n == Len(bits)
        p0 == BitsToInt(SubSeq(bits, n - 19, n)) * k
        p1 == BitsToInt(SubSeq(bits, n - 39, n - 20)) * k + p0 \div (2 ^ 20)
        p2 == BitsToInt(SubSeq(bits, 1, n - 40)) * k + p1 \div (2 ^ 20)
    IN  IntBits(p2) \o PadBits(IntBits(p1 % (2 ^ 20)), 20)
                    \o PadBits(IntBits(p0 % (2 ^ 20)), 20)

\* round-to-nearest-even of the positive number whose digits are `stream`,
\* the first p of them before the binary point, followed by further nonzero
\* digits iff `tail`: [mant, exp] with value = mant * 2^exp
RoundToDouble(stream, tail, p) ==
    LET f == CHOOSE i \in 1..Len(stream) :
                 stream[i] = 1 /\ \A j \in 1..(i - 1) : stream[j] = 0
        sig == SubSeq(stream, f, Len(stream))
        e == (p - (f - 1)) - MantissaBits
    IN  IF Len(sig) <= MantissaBits
        THEN [mant |-> sig \o [i \in 1..(MantissaBits - Len(sig)) |-> 0], exp |-> e]
        ELSE LET m == SubSeq(sig, 1, MantissaBits)
                 sticky == tail \/ \E i \in (MantissaBits + 2)..Len(sig) : sig[i] = 1
                 up == sig[MantissaBits + 1] = 1 /\ (sticky \/ m[MantissaBits] = 1)
                 m1 == IF up THEN IncBits(m) ELSE m
             IN  IF Len(m1) > MantissaBits
                 THEN [mant |-> SubSeq(m1, 1, MantissaBits), exp |-> e + 1]
                 ELSE [mant |-> m1, exp |-> e]

\* (whole * 10^6 + micro) / 10^6 as a float: timedelta.total_seconds()
TotalSeconds(whole, micro) ==
    LET ib == IntBits(whole)
        fb == FracBits(micro, 1000000, 8, <<>>)
    IN  RoundToDouble(ib \o fb.bits, fb.rem # 0, Len(ib))

\* x * 1000 for a float x
Times1000(x) ==
    LET prod == MulBits(x.mant, 1000)
    IN  RoundToDouble(prod, FALSE, Len(prod) + x.exp)

\* int(x) for a float x >= 0
IntOfFloat(x) ==
    LET n == MantissaBits + x.exp
    IN  IF n <= 0 THEN 0
        ELSE IF n <= MantissaBits THEN BitsToInt(SubSeq(x.mant, 1, n))
        ELSE BitsToInt(x.mant) * (2 ^ (n - MantissaBits))

\* int(t.timestamp() * 1000): the magnitude goes through the float
\* arithmetic, int() drops the fraction towards zero
TimestampMs(t) ==
    LET neg == t.ms < 0
        mag == IF ~neg THEN t
               ELSE IF t.us > 0 THEN [ms |-> (-t.ms) - 1, us |-> 1000 - t.us]
               ELSE [ms |-> -t.ms, us |-> 0]
        whole == mag.ms \div 1000
        micro == (mag.ms % 1000) * 1000 + mag.us
        v == IF whole = 0 /\ micro = 0 THEN 0
             ELSE IntOfFloat(Times1000(TotalSeconds(whole, micro)))
    IN  IF neg THEN -v ELSE v

\* the texts given as --start / --end; an option that is absent is <<>>, one
\* that is given is <<text>>
DateTexts == {"1970-01-02", "1970-01-04"}
DateTimeTexts == {"1970-01-03T00:34:33"}
MalformedTexts == {"1970-13-01", "1970-01-02 00:00:00", "1970-01-02T00:00"}
ArgTexts == DateTexts \cup DateTimeTexts \cup MalformedTexts \cup {""}

\* "T" in s
HasT(s) == s \in {"1970-01-03T00:34:33", "1970-01-02T00:00"}

\* dt.datetime.strptime(s, "%Y-%m-%dT%H:%M:%S").replace(tzinfo=utc)
StrptimeDateTime(s) ==
    CASE s = "1970-01-03T00:34:33" -> [ok |-> TRUE, ms |-> 2 * DayMs + 2073000, us |-> 0]
      [] OTHER -> [ok |-> FALSE, ms |-> 0, us |-> 0]

\* dt.datetime.strptime(s, "%Y-%m-%d").replace(tzinfo=utc)
StrptimeDate(s) ==
    CASE s = "1970-01-02" -> [ok |-> TRUE, ms |-> DayMs, us |-> 0]
      [] s = "1970-01-04" -> [ok |-> TRUE, ms |-> 3 * DayMs, us |-> 0]
      [] OTHER -> [ok |-> FALSE, ms |-> 0, us |-> 0]

\* a parser that accepts every text
parse_dt_utc_Lenient(s) == [ok |-> TRUE, ms |-> 0, us |-> 0]

\* parse_dt_utc(s): the format is chosen by `"T" in s`
parse_dt_utc(s) == IF HasT(s) THEN StrptimeDateTime(s) ELSE StrptimeDate(s)

\* `if end:` / `if start:` -- None and "" are false
Given(opt) == opt # <<>> /\ opt[1] # ""

\* end_dt - dt.timedelta(days=days)
MinusDays(t, days) == [ms |-> t.ms - days * DayMs, us |-> t.us]

\* get_range(days, start, end) when datetime.now() is `now`: the pair
\* returned, or the ValueError of the first text that does not parse
get_range(days, start, end, now) ==
    LET end_p == IF Given(end) THEN parse_dt_utc(end[1])
                 ELSE [ok |-> TRUE, ms |-> now.ms, us |-> now.us]
        start_p == IF Given(start) THEN parse_dt_utc(start[1])
                   ELSE [ok |-> TRUE, ms |-> MinusDays(end_p, days).ms,
                         us |-> end_p.us]
    IN  IF end_p.ok /\ start_p.ok
        THEN [ok |-> TRUE, start_ms |-> TimestampMs(start_p),
              end_ms |-> TimestampMs(end_p)]
        ELSE [ok |-> FALSE, start_ms |-> 0, end_ms |-> 0]

(***************************************************************************)
(* main                                                                    *)
(***************************************************************************)
OutRoot == "out"

\* os.path.join(out_root, f"klines_{interval}")
IntervalDir(itv) == OutRoot \o "/klines_" \o itv

\* args = parse_args(); start_ms, end_ms = get_range(...); os.makedirs(...)
MainGetRange ==
    /\ mpc = "range"
    /\ LET r == get_range(args.days, args.start, args.end, clock) IN
         IF r.ok
         THEN /\ range_ms' = <<r.start_ms, r.end_ms>>
              /\ dirs' = dirs \cup {OutRoot}
                              \cup {IntervalDir(args.intervals[i]) :
                                        i \in 1..Len(args.intervals)}
              /\ si' = 1
              /\ ii' = 1
              /\ mpc' = "pair"
              /\ UNCHANGED m_error
         ELSE /\ mpc' = "failed"
              /\ m_error' = "ValueError"
              /\ UNCHANGED <<range_ms, dirs, si, ii>>
    /\ UNCHANGED <<transport, retryVars, sleeps, fetchVars, args, clock,
                   klines_by_interval, summary_rows, files, writes, fetched,
                   kl_log, cm_klines, cm_result>>

\* get_range called with every combination of day-count, --start, --end and
\* clock
Clocks ==
    { [ms |-> 5 * DayMs, us |-> 0], [ms |-> 5 * DayMs + 1, us |-> 500],
      [ms |-> 529221190, us |-> 0], [ms |-> 392900232, us |-> 0] }

OptTexts == {<<>>} \cup {<<t>> : t \in ArgTexts}

InitRange ==
    /\ transport = MockTransport
    /\ InitRetryVars
    /\ symbol = "BTCUSDT"
    /\ interval = "1h"
    /\ fpc = "none"
    /\ start_ms = 0
    /\ end_ms = 0
    /\ next_start = 0
    /\ out = <<>>
    /\ requests = <<>>
    /\ result = <<>>
    /\ args \in [days : 0..MaxDays, start : OptTexts, end : OptTexts,
                 symbols : {<<"BTCUSDT">>}, intervals : {<<"1h">>}]
    /\ clock \in Clocks
    /\ mpc = "range"
    /\ m_error = "none"
    /\ range_ms = <<0, 0>>
    /\ si = 0
    /\ ii = 0
    /\ klines_by_interval = <<>>
    /\ summary_rows = <<>>
    /\ files = <<>>
    /\ writes = <<>>
    /\ fetched = <<>>
    /\ kl_log = <<>>
    /\ dirs = {}
    /\ cm_klines = <<>>
    /\ cm_result = <<>>

NextRange == MainGetRange

SpecRange == InitRange /\ [][NextRange]_vars

\* C13: when --start is absent (the start is derived from the day-count, the
\* end given or taken from the clock) and the day-count is at least 1,
\* get_range returns start_ms < end_ms with
\* end_ms - start_ms = days * 86,400,000.
C13_DaysFallback ==
    (mpc = "pair" /\ ~Given(args.start) /\ args.days >= 1) =>
        /\ range_ms[1] < range_ms[2]
        /\ range_ms[2] - range_ms[1] = args.days * DayMs

(***************************************************************************)
(* calc_metrics.  A float is [nan, neg, mant, exp]: not-a-number, or the number of sign neg    *)
(* and magnitude mant * 2^exp, mant a significand of 53 binary digits (no  *)
(* digits for zero).  Closes and volumes are floats with whole values and  *)
(* are kept as integers; every operation on them is rounded to the nearest *)
(* float as the hardware does.  Open times of one series are all           *)
(* counted in one unit, and `day` is the length of a day in that unit:     *)
(* 86,400,000 for the milliseconds of the code, 24 when only the hour      *)
(* index h of an hourly candle (open_time_ms = h * 3,600,000) is kept, so  *)
(* that look-back windows of 180 days fit the integers of the checker.     *)
(***************************************************************************)
HoursPerDay == 24

\* float("nan")
NaN == [nan |-> TRUE, neg |-> FALSE, mant |-> <<>>, exp |-> 0]

\* 0.0
Zero == [nan |-> FALSE, neg |-> FALSE, mant |-> <<>>, exp |-> 0]

Abs(a) == IF a < 0 THEN -a ELSE a

\* the float of magnitude x = [mant, exp] and the given sign
Signed(neg, x) == [nan |-> FALSE, neg |-> neg, mant |-> x.mant, exp |-> x.exp]

\* the float n / d (d # 0): the quotient rounded to the nearest float; 90
\* binary digits after the point are enough for operands below 2^21
Ratio(n, d) ==
    LET a == Abs(n)
        b == Abs(d)
        ib == IntBits(a \div b)
        fb == FracBits(a % b, b, 9, <<>>)
    IN  IF n = 0 THEN Zero
        ELSE Signed((n < 0) # (d < 0),
                    RoundToDouble(ib \o fb.bits, fb.rem # 0, Len(ib)))

\* bits without the zeros at its end
TrimBits(bits) ==
    LET ones == {i \in 1..Len(bits) : bits[i] = 1}
    IN  IF ones = {} THEN <<>>
        ELSE SubSeq(bits, 1, CHOOSE i \in ones : \A j \in ones : j <= i)

\* the magnitude of the float x as [ip, frac]: its integer part and the
\* binary digits after the point, up to the last 1 among them
FixedPoint(x) ==
    IF Len(x.mant) = 0 THEN [ip |-> 0, frac |-> <<>>]
    ELSE IF x.exp >= 0
    THEN [ip |-> BitsToInt(x.mant) * (2 ^ x.exp), frac |-> <<>>]
    ELSE IF -x.exp >= MantissaBits
    THEN [ip |-> 0, frac |-> TrimBits(PadBits(x.mant, -x.exp))]
    ELSE [ip |-> BitsToInt(SubSeq(x.mant, 1, MantissaBits + x.exp)),
          frac |-> TrimBits(SubSeq(x.mant, MantissaBits + x.exp + 1,
                                   MantissaBits))]

\* the float of magnitude ip + 0.frac and the given sign, rounded to nearest
FromFixedPoint(neg, ip, frac) ==
    LET ib == IntBits(ip)
    IN  IF ip = 0 /\ \A i \in 1..Len(frac) : frac[i] = 0 THEN Zero
        ELSE Signed(neg, RoundToDouble(ib \o frac, FALSE, Len(ib)))

\* the float whose value is the integer n
Float(n) == FromFixedPoint(n < 0, Abs(n), <<>>)

\* x - 1.0 for a float x
MinusOne(x) ==
    LET fp == FixedPoint(x)
        none == \A i \in 1..Len(fp.frac) : fp.frac[i] = 0
    IN  IF x.neg THEN FromFixedPoint(TRUE, fp.ip + 1, fp.frac)
        ELSE IF fp.ip >= 1 THEN FromFixedPoint(FALSE, fp.ip - 1, fp.frac)
        ELSE IF none THEN FromFixedPoint(TRUE, 1, <<>>)
        ELSE FromFixedPoint(TRUE, 0,
                 IncBits([i \in 1..Len(fp.frac) |-> 1 - fp.frac[i]]))

\* x * 100.0 for a float x
Times100(x) ==
    IF Len(x.mant) = 0 THEN x
    ELSE LET prod == MulBits(x.mant, 100)
         IN  Signed(x.neg, RoundToDouble(prod, FALSE, Len(prod) + x.exp))

\* a result of zeros for the empty series
EmptyResult_Zeros ==
    [ch90 |-> Zero, ch180 |-> Zero, avg_b |-> Zero, avg_q |-> Zero]

\* return float("nan"), float("nan"), float("nan"), float("nan")
EmptyResult == [ch90 |-> NaN, ch180 |-> NaN, avg_b |-> NaN, avg_q |-> NaN]

\* a comparison that skips the candle that opens exactly at the target
AtOrAfterTarget_Strict(t, end_t, D, day) ==
    (end_t - t) \div day < D

\* k.open_time_ms >= target_ms, where target_ms = end_ms - D days;
\* written as end_ms - k.open_time_ms <= D * day without forming D * day
AtOrAfterTarget(t, end_t, D, day) ==
    \/ (end_t - t) \div day < D
    \/ (end_t - t) \div day = D /\ (end_t - t) % day = 0

\* close_at_or_after(end_ms - D days)
close_at_or_after(klines, D, day) ==
    LET end_t == klines[Len(klines)].open_time_ms
        hits == {i \in 1..Len(klines) :
                    AtOrAfterTarget(klines[i].open_time_ms, end_t, D, day)}
    IN  IF hits = {} THEN klines[Len(klines)].close
        ELSE klines[CHOOSE i \in hits : \A j \in hits : i <= j].close

\* (c_end / c_ref - 1.0) * 100.0 if c_ref else float("nan")
PctChange(c_end, c_ref) ==
    IF c_ref # 0 THEN Times100(MinusOne(Ratio(c_end, c_ref))) ELSE NaN

\* a grouping that puts every record in a day of its own
UtcDay_PerRecord(t, day) == t

\* ms_to_utc_iso(k.open_time_ms)[:10], as the number of the UTC day
UtcDay(t, day) == t \div day

RECURSIVE SumRange(_, _, _)
\* f[lo] + ... + f[hi]
SumRange(f, lo, hi) ==
    IF hi < lo THEN 0
    ELSE IF lo = hi THEN f[lo]
    ELSE LET mid == (lo + hi) \div 2
         IN  SumRange(f, lo, mid) + SumRange(f, mid + 1, hi)

RECURSIVE SumOver(_, _)
\* the sum of f over the set S
SumOver(S, f) ==
    IF S = {} THEN 0
    ELSE LET x == CHOOSE y \in S : TRUE IN f[x] + SumOver(S \ {x}, f)

\* sum(day_x.values()) / len(day_x), day_x the per-day sums of the amounts
AvgDaily(klines, amounts, day) ==
    LET days == {UtcDay(klines[i].open_time_ms, day) : i \in 1..Len(klines)}
        day_x == [d \in days |->
                    SumRange([i \in 1..Len(klines) |->
                                 IF UtcDay(klines[i].open_time_ms, day) = d
                                 THEN amounts[i] ELSE 0], 1, Len(klines))]
    IN  IF days # {} THEN Ratio(SumOver(days, day_x), Cardinality(days)) ELSE NaN

calc_metrics(klines_1h, day) ==
    IF Len(klines_1h) = 0 THEN EmptyResult
    ELSE LET c_end == klines_1h[Len(klines_1h)].close
             c_90 == close_at_or_after(klines_1h, 90, day)
             c_180 == close_at_or_after(klines_1h, 180, day)
         IN  [ch90 |-> PctChange(c_end, c_90),
              ch180 |-> PctChange(c_end, c_180),
              avg_b |-> AvgDaily(klines_1h,
                           [i \in 1..Len(klines_1h) |-> klines_1h[i].volume], day),
              avg_q |-> AvgDaily(klines_1h,
                           [i \in 1..Len(klines_1h) |-> klines_1h[i].quote_volume], day)]

(***************************************************************************)
(* calc_metrics called directly, as the tests call it, on hourly series    *)
(* whose open times are kept as hour indices.                              *)
(***************************************************************************)
MaxSeriesLen == 3

\* hours 0 and 1 of day 0, the hours around day 90 and day 180, and an hour
\* of day 181
MetricTimes == {0, 1, 2160, 2161, 4320, 4321, 4345}
MetricCloses == {0, 100, 105}
MetricVolumes == {100, 200}

\* the series over the open times T, ascending, with every choice of closes
\* and volumes
SeriesOver(T) ==
    LET ts == Ascending(T, 0, 4345)
        n == Len(ts)
    IN  { [i \in 1..n |-> [open_time_ms |-> ts[i], close |-> cs[i],
                           volume |-> vs[i], quote_volume |-> 50 * vs[i]]] :
             cs \in [1..n -> MetricCloses], vs \in [1..n -> MetricVolumes] }

\* TestCalcMetrics.test_avg_volume_calculation: 48 hourly candles, volume 100
\* on the first day and 200 on the second
HourlySeries ==
    [i \in 1..48 |-> [open_time_ms |-> i - 1, close |-> 50,
                      volume |-> IF i <= 24 THEN 100 ELSE 200,
                      quote_volume |-> IF i <= 24 THEN 5000 ELSE 10000]]

\* the sets of at most n open times
MetricTimeSets(n) == {S \in SUBSET MetricTimes : Cardinality(S) <= n}

InitFetchIdle ==
    /\ transport = MockTransport
    /\ InitRetryVars
    /\ symbol = "BTCUSDT"
    /\ interval = "1h"
    /\ fpc = "none"
    /\ start_ms = 0
    /\ end_ms = 0
    /\ next_start = 0
    /\ out = <<>>
    /\ requests = <<>>
    /\ result = <<>>

InitMetrics ==
    /\ InitFetchIdle
    /\ args = NoArgs
    /\ clock = [ms |-> 0, us |-> 0]
    /\ mpc = "none"
    /\ m_error = "none"
    /\ range_ms = <<0, 0>>
    /\ si = 0
    /\ ii = 0
    /\ klines_by_interval = <<>>
    /\ summary_rows = <<>>
    /\ files = <<>>
    /\ writes = <<>>
    /\ fetched = <<>>
    /\ kl_log = <<>>
    /\ dirs = {}
    /\ \/ cm_klines = HourlySeries
       \/ \E T \in MetricTimeSets(MaxSeriesLen) : cm_klines \in SeriesOver(T)
    /\ cm_result = <<>>

\* calc_metrics(symbol, cm_klines)
CalcMetricsCall ==
    /\ mpc = "none"
    /\ cm_result = <<>>
    /\ cm_result' = <<calc_metrics(cm_klines, HoursPerDay)>>
    /\ UNCHANGED <<transport, retryVars, sleeps, fetchVars, args, clock, mpc,
                   m_error, range_ms, si, ii, klines_by_interval, summary_rows,
                   files, writes, fetched, kl_log, dirs, cm_klines>>

NextMetrics == CalcMetricsCall

SpecMetrics == InitMetrics /\ [][NextMetrics]_vars

\* the close of the first record of s that opens at or after the open time
\* of the last record minus D days (open times in hours)
ReferenceClose(s, D) ==
    LET target == s[Len(s)].open_time_ms - D * HoursPerDay
        first == CHOOSE i \in 1..Len(s) :
                     /\ s[i].open_time_ms >= target
                     /\ \A j \in 1..(i - 1) : s[j].open_time_ms < target
    IN  s[first].close

\* the change for the window of D days agrees with the claim
LookBackHolds(s, D, ch) ==
    LET ref == ReferenceClose(s, D)
        last == s[Len(s)].close
    IN  /\ (s[Len(s)].open_time_ms - s[1].open_time_ms < D * HoursPerDay)
             => ref = s[1].close
        /\ ch.nan <=> ref = 0
        /\ ref # 0 =>
              /\ ch = Times100(MinusOne(Ratio(last, ref)))
              /\ ch.neg <=> last < ref
              /\ ch = Zero <=> last = ref
        /\ (ref # 0 /\ \A i \in 1..Len(s) : s[i].close = last)
             => ch = Zero

\* C14 (SpecMetrics): for a non-empty ascending series and D in {90, 180},
\* the reference close is the close of the first record that opens at or
\* after (open time of the last record - D days), the first record of the
\* series when it spans less than D days; the change is
\* (last close / reference close - 1) * 100 in float arithmetic (the quotient
\* rounded, then the product), negative exactly when the last close is below
\* the reference, 0 exactly when they are equal and so when all closes are;
\* and the change is not-a-number exactly when the reference close is zero.
C14_LookBackReference ==
    (Len(cm_result) = 1 /\ Len(cm_klines) > 0) =>
        /\ LookBackHolds(cm_klines, 90, cm_result[1].ch90)
        /\ LookBackHolds(cm_klines, 180, cm_result[1].ch180)

\* a series of three records, the second exactly 90 days before the last and
\* the first exactly 180 days before it: the two changes differ, and the
\* change over 90 days is the float next to 5 that the rounded quotient
\* 105 / 100 leaves
C14_Witness ==
    /\ Len(cm_result) = 1
    /\ Len(cm_klines) = 3
    /\ cm_klines[1].open_time_ms = 0 /\ cm_klines[1].close = 105
    /\ cm_klines[2].open_time_ms = 2160 /\ cm_klines[2].close = 100
    /\ cm_klines[3].open_time_ms = 4320 /\ cm_klines[3].close = 105
    /\ ~cm_result[1].ch90.nan /\ ~cm_result[1].ch90.neg
    /\ FixedPoint(cm_result[1].ch90).ip = 5
    /\ cm_result[1].ch90.exp = -50
    /\ cm_result[1].ch90 # Float(5)
    /\ cm_result[1].ch180 = Zero

\* the sum of the amounts of s
Total(s, amounts) == SumRange(amounts, 1, Len(s))

\* C15 (SpecMetrics): for a non-empty series the average daily base (quote)
\* volume is the sum of volume (quote_volume) over all records divided by the
\* number of distinct UTC days among the open times; 24 hourly records of
\* volume 100 followed by 24 of volume 200 give 3600.
C15_DailyVolume ==
    (Len(cm_result) = 1 /\ Len(cm_klines) > 0) =>
        LET n == Len(cm_klines)
            ndays == Cardinality({cm_klines[i].open_time_ms \div HoursPerDay :
                                     i \in 1..n})
            r == cm_result[1]
            tb == Total(cm_klines, [i \in 1..n |-> cm_klines[i].volume])
            tq == Total(cm_klines, [i \in 1..n |-> cm_klines[i].quote_volume])
        IN  /\ ~r.avg_b.nan
            /\ r.avg_b = Ratio(tb, ndays)
            /\ tb % ndays = 0 => r.avg_b = Float(tb \div ndays)
            /\ ~r.avg_q.nan
            /\ r.avg_q = Ratio(tq, ndays)
            /\ tq % ndays = 0 => r.avg_q = Float(tq \div ndays)
            /\ cm_klines = HourlySeries => r.avg_b = Float(3600)

C15_Witness ==
    /\ Len(cm_result) = 1
    /\ cm_klines = HourlySeries
    /\ cm_result[1].avg_b = Float(3600)
    /\ cm_result[1].avg_q = Float(180000)

\* C16 (SpecMetrics): on an empty series calc_metrics returns not-a-number
\* for all four outputs; on a non-empty series neither average volume is
\* not-a-number.
C16_EmptySeriesNaN ==
    Len(cm_result) = 1 =>
        /\ Len(cm_klines) = 0 =>
              /\ cm_result[1].ch90.nan
              /\ cm_result[1].ch180.nan
              /\ cm_result[1].avg_b.nan
              /\ cm_result[1].avg_q.nan
        /\ Len(cm_klines) > 0 =>
              ~cm_result[1].avg_b.nan /\ ~cm_result[1].avg_q.nan

C16_Witness ==
    /\ Len(cm_klines) = 0
    /\ Len(cm_result) = 1
    /\ cm_result[1] = [ch90 |-> NaN, ch180 |-> NaN, avg_b |-> NaN, avg_q |-> NaN]

(***************************************************************************)
(* Text written to the files.                                              *)
(***************************************************************************)
Zeros(k) ==
    CASE k <= 0 -> ""
      [] k = 1 -> "0"
      [] k = 2 -> "00"
      [] k = 3 -> "000"
      [] k = 4 -> "0000"
      [] OTHER -> "00000"

\* the natural n in at least w decimal digits
Digits(n, w) == LET t == ToString(n) IN Zeros(w - Len(t)) \o t

RECURSIVE MulWide(_, _, _)
\* bits * k + carry for k up to 10^5, ten digits at a time: twenty digits
\* more than bits has
MulWide(bits, k, carry) ==
    IF Len(bits) = 0 THEN PadBits(IntBits(carry), 20)
    ELSE LET n == Len(bits)
             w == IF n < 10 THEN n ELSE 10
             v == BitsToInt(SubSeq(bits, n - w + 1, n)) * k + carry
         IN  MulWide(SubSeq(bits, 1, n - w), k, v \div (2 ^ w))
                 \o PadBits(IntBits(v % (2 ^ w)), w)

\* f"{x:.6f}" (h = 3) and f"{x:.10f}" (h = 5): 2 * h decimals of the exact
\* value of the float, the last one rounded half to even; the decimals are
\* produced h at a time
FormatFixed(x, h) ==
    IF x.nan THEN "nan"
    ELSE LET fp == FixedPoint(x)
             p == 10 ^ h
             n == Len(fp.frac)
             m1 == MulWide(fp.frac, p, 0)
             f1 == IF n = 0 THEN 0 ELSE BitsToInt(SubSeq(m1, 1, 20))
             m2 == MulWide(SubSeq(m1, 21, n + 20), p, 0)
             f2 == IF n = 0 THEN 0 ELSE BitsToInt(SubSeq(m2, 1, 20))
             rest == SubSeq(m2, 21, n + 20)
             up == /\ n > 0
                   /\ rest[1] = 1
                   /\ (f2 % 2 = 1 \/ \E i \in 2..n : rest[i] = 1)
             f2u == IF up THEN f2 + 1 ELSE f2
             f1u == f1 + f2u \div p
             ip == fp.ip + f1u \div p
         IN  (IF x.neg THEN "-" ELSE "") \o ToString(ip) \o "."
                 \o Digits(f1u % p, h) \o Digits(f2u % p, h)

\* "%Y-%m-%d" of the UTC day d days after 1970-01-01 (before it when d < 0),
\* in the proleptic Gregorian calendar: the days are counted from 1 March of
\* year 0 in eras of 400 years
CivilDate(d) ==
    LET z == d + 719468
        era == z \div 146097
        doe == z % 146097
        yoe == (doe - doe \div 1460 + doe \div 36524 - doe \div 146096) \div 365
        doy == doe - (365 * yoe + yoe \div 4 - yoe \div 100)
        mp == (5 * doy + 2) \div 153
        day == doy - (153 * mp + 2) \div 5 + 1
        month == IF mp < 10 THEN mp + 3 ELSE mp - 9
        year == yoe + era * 400 + (IF month <= 2 THEN 1 ELSE 0)
    IN  Digits(year, 4) \o "-" \o Digits(month, 2) \o "-" \o Digits(day, 2)

\* "%Y-%m-%d %H:%M:%S" of the instant sec seconds after the epoch
SecondsToUtcIso(sec) ==
    CivilDate(sec \div 86400) \o " "
        \o Digits((sec % 86400) \div 3600, 2) \o ":"
        \o Digits((sec % 3600) \div 60, 2) \o ":"
        \o Digits(sec % 60, 2)

\* ms_to_utc_iso(ms): the text of the second the instant falls in; the
\* milliseconds are dropped (towards the past, also before the epoch)
ms_to_utc_iso(ms) == SecondsToUtcIso(ms \div 1000)

\* write_klines_csv: the header and one row per record
CsvHeader ==
    [open_time_utc |-> "open_time_utc", close |-> "close", volume |-> "volume",
     quote_volume |-> "quote_volume"]

CsvRow(k) ==
    [open_time_utc |-> ms_to_utc_iso(k.open_time_ms),
     close |-> FormatFixed(Float(k.close), 5),
     volume |-> FormatFixed(Float(k.volume), 5),
     quote_volume |-> FormatFixed(Float(k.quote_volume), 5)]

CsvRows(klines) == <<CsvHeader>> \o [i \in 1..Len(klines) |-> CsvRow(klines[i])]

\* a file name without the symbol
CandlePath_NoSymbol(sym, itv) == IntervalDir(itv) \o "/" \o itv \o ".csv"

\* os.path.join(out_root, f"klines_{interval}", f"{symbol}_{interval}.csv")
CandlePath(sym, itv) == IntervalDir(itv) \o "/" \o sym \o "_" \o itv \o ".csv"

SummaryPath == OutRoot \o "/summary_metrics.csv"

SummaryHeader ==
    [symbol |-> "symbol", price_change_90d_pct |-> "price_change_90d_pct",
     price_change_180d_pct |-> "price_change_180d_pct",
     avg_daily_volume_base |-> "avg_daily_volume_base",
     avg_daily_volume_quote |-> "avg_daily_volume_quote"]

\* [symbol, f"{ch90:.6f}", f"{ch180:.6f}", f"{avg_b:.10f}", f"{avg_q:.10f}"]
SummaryRow(sym, m) ==
    [symbol |-> sym, price_change_90d_pct |-> FormatFixed(m.ch90, 3),
     price_change_180d_pct |-> FormatFixed(m.ch180, 3),
     avg_daily_volume_base |-> FormatFixed(m.avg_b, 5),
     avg_daily_volume_quote |-> FormatFixed(m.avg_q, 5)]

\* metrics taken from another interval
MetricsInterval_4h == "4h"

\* if "1h" in klines_by_interval
MetricsInterval == "1h"

(***************************************************************************)
(* main: the loop over the (symbol, interval) pairs and the summary.       *)
(***************************************************************************)
\* main is not touched by this step
mainLoopVars == <<args, clock, range_ms, dirs, cm_klines, cm_result>>

\* kl = fetch_klines(symbol, interval, start_ms, end_ms, args.timeout): entry
MainFetch ==
    /\ mpc = "pair"
    /\ si <= Len(args.symbols)
    /\ ii <= Len(args.intervals)
    /\ symbol' = args.symbols[si]
    /\ interval' = args.intervals[ii]
    /\ start_ms' = range_ms[1]
    /\ end_ms' = range_ms[2]
    /\ next_start' = range_ms[1]
    /\ out' = <<>>
    /\ requests' = <<>>
    /\ result' = <<>>
    /\ fpc' = "loop"
    /\ fetched' = Append(fetched, <<args.symbols[si], args.intervals[ii]>>)
    /\ mpc' = "fetch"
    /\ UNCHANGED <<transport, retryVars, sleeps, mainLoopVars, m_error, si, ii,
                   klines_by_interval, summary_rows, files, writes, kl_log>>

\* fetch_klines returned: klines_by_interval[interval] = kl and
\* write_klines_csv(out_csv, kl) writes the file
MainWrite ==
    /\ mpc = "fetch"
    /\ fpc = "done"
    /\ IntervalDir(interval) \in dirs
    /\ klines_by_interval' = (interval :> result) @@ klines_by_interval
    /\ kl_log' = Append(kl_log, result)
    /\ files' = (CandlePath(symbol, interval) :> CsvRows(result)) @@ files
    /\ writes' = Append(writes, CandlePath(symbol, interval))
    /\ ii' = ii + 1
    /\ fpc' = "none"
    /\ mpc' = "pair"
    /\ UNCHANGED <<transport, retryVars, sleeps, symbol, interval, start_ms,
                   end_ms, next_start, out, requests, result, mainLoopVars,
                   m_error, si, summary_rows, fetched>>

\* what is in the file when the `with open(...)` block raises after open():
\* a prefix of the bytes of the text.  A write that fails leaves a proper
\* prefix, that is the first n lines and possibly a part of the next one,
\* [torn, whole]: a non-empty part of the line `torn`, with all of its fields
\* and only its line end cut short when `whole`, cut within its fields
\* otherwise.  A close that fails after the data was written leaves the
\* complete text.
FailedWriteTexts(lines) ==
    {lines} \cup
    UNION { {SubSeq(lines, 1, n)}
              \cup { Append(SubSeq(lines, 1, n),
                            [torn |-> lines[n + 1], whole |-> w]) :
                         w \in BOOLEAN } :
            n \in 0..(Len(lines) - 1) }

\* fetch_klines returned and write_klines_csv raises: open() fails, or the
\* file is opened (and emptied) and writing or closing it fails
MainWriteFails ==
    /\ mpc = "fetch"
    /\ fpc = "done"
    /\ klines_by_interval' = (interval :> result) @@ klines_by_interval
    /\ kl_log' = Append(kl_log, result)
    /\ \/ UNCHANGED files
       \/ /\ IntervalDir(interval) \in dirs
          /\ \E text \in FailedWriteTexts(CsvRows(result)) :
                files' = (CandlePath(symbol, interval) :> text) @@ files
    /\ m_error' = IF IntervalDir(interval) \in dirs THEN "OSError"
                  ELSE "FileNotFoundError"
    /\ fpc' = "none"
    /\ mpc' = "failed"
    /\ UNCHANGED <<transport, retryVars, sleeps, symbol, interval, start_ms,
                   end_ms, next_start, out, requests, result, mainLoopVars,
                   si, ii, summary_rows, writes, fetched>>

\* fetch_klines raised: main has no handler
MainFetchRaised ==
    /\ mpc = "fetch"
    /\ fpc = "raised"
    /\ m_error' = rr_error
    /\ mpc' = "failed"
    /\ UNCHANGED <<transport, retryVars, sleeps, fetchVars, mainLoopVars, si, ii,
                   klines_by_interval, summary_rows, files, writes, fetched,
                   kl_log>>

\* the inner loop is over: the summary row of the symbol; the next symbol, if
\* there is one, starts with klines_by_interval = {}, and after the last
\* symbol the dictionary keeps the series of that symbol
MainNextSymbol ==
    /\ mpc = "pair"
    /\ si <= Len(args.symbols)
    /\ ii > Len(args.intervals)
    /\ summary_rows' =
         IF MetricsInterval \in DOMAIN klines_by_interval
         THEN Append(summary_rows,
                     SummaryRow(args.symbols[si],
                                calc_metrics(klines_by_interval[MetricsInterval],
                                             DayMs)))
         ELSE summary_rows
    /\ klines_by_interval' = IF si < Len(args.symbols) THEN <<>>
                              ELSE klines_by_interval
    /\ si' = si + 1
    /\ ii' = 1
    /\ UNCHANGED <<transport, retryVars, sleeps, fetchVars, mainLoopVars, mpc,
                   m_error, files, writes, fetched, kl_log>>

\* the outer loop is over: the summary file is written
MainSummary ==
    /\ mpc = "pair"
    /\ si > Len(args.symbols)
    /\ OutRoot \in dirs
    /\ files' = (SummaryPath :> (<<SummaryHeader>> \o summary_rows)) @@ files
    /\ writes' = Append(writes, SummaryPath)
    /\ mpc' = "done"
    /\ UNCHANGED <<transport, retryVars, sleeps, fetchVars, mainLoopVars, m_error,
                   si, ii, klines_by_interval, summary_rows, fetched, kl_log>>

\* the `with open(summary_path, ...)` block raises: open() fails, or the file
\* is opened (and emptied) and writing or closing it fails
MainSummaryFails ==
    /\ mpc = "pair"
    /\ si > Len(args.symbols)
    /\ \/ UNCHANGED files
       \/ /\ OutRoot \in dirs
          /\ \E text \in FailedWriteTexts(<<SummaryHeader>> \o summary_rows) :
                files' = (SummaryPath :> text) @@ files
    /\ m_error' = IF OutRoot \in dirs THEN "OSError" ELSE "FileNotFoundError"
    /\ mpc' = "failed"
    /\ UNCHANGED <<transport, retryVars, sleeps, fetchVars, mainLoopVars, si, ii,
                   klines_by_interval, summary_rows, writes, fetched, kl_log>>

\* the exchange: the open times of the candles it holds for each pair
ExchangeCandles ==
    (<<"BTCUSDT", "1h">> :> <<0, 3600000>>) @@
    (<<"BTCUSDT", "4h">> :> <<0>>) @@
    (<<"ETHUSDT", "1h">> :> <<3600000, 7200000>>) @@
    (<<"ETHUSDT", "4h">> :> <<>>)

SymbolLists == {<<"ETHUSDT">>, <<"BTCUSDT", "ETHUSDT">>}
IntervalLists == {<<"4h">>, <<"1h", "4h">>, <<"4h", "1h">>}

InitMain ==
    /\ transport = [kind |-> "exchange", candles |-> ExchangeCandles, body |-> <<>>]
    /\ InitRetryVars
    /\ symbol = "BTCUSDT"
    /\ interval = "1h"
    /\ fpc = "none"
    /\ start_ms = 0
    /\ end_ms = 0
    /\ next_start = 0
    /\ out = <<>>
    /\ requests = <<>>
    /\ result = <<>>
    /\ args \in [days : {1}, start : {<<>>, <<"1970-13-01">>},
                 end : {<<"1970-01-02">>, <<"1970-01-02T00:00">>},
                 symbols : SymbolLists, intervals : IntervalLists]
    /\ clock = [ms |-> 5 * DayMs, us |-> 0]
    /\ mpc = "range"
    /\ m_error = "none"
    /\ range_ms = <<0, 0>>
    /\ si = 0
    /\ ii = 0
    /\ klines_by_interval = <<>>
    /\ summary_rows = <<>>
    /\ files = <<>>
    /\ writes = <<>>
    /\ fetched = <<>>
    /\ kl_log = <<>>
    /\ dirs = {}
    /\ cm_klines = <<>>
    /\ cm_result = <<>>

NextMain ==
    \/ MainGetRange
    \/ MainFetch
    \/ FetchRequest
    \/ GetOk
    \/ GetNetErr
    \/ Get429
    \/ GetHttpErr
    \/ FetchPage
    \/ FetchRaise
    \/ MainWrite
    \/ MainWriteFails
    \/ MainFetchRaised
    \/ MainNextSymbol
    \/ MainSummary
    \/ MainSummaryFails

SpecMain == InitMain /\ [][NextMain]_vars

(***************************************************************************)
(* Claims about main, checked under SpecMain.  fetched lists the pairs     *)
(* handed to fetch_klines, writes the paths of the files written in full,  *)
(* kl_log the series main received, in the order of the pairs.             *)
(***************************************************************************)
\* the last GET of the current request failed and no further attempt follows
FetchFailed == getlog # <<>> /\ Last(getlog) # "ok" /\ rpc # "get"

\* the run ended on the fetch or the write of a pair
PairFailed == mpc = "failed" /\ si \in 1..Len(args.symbols)

\* the files written in full hold the rows of the series they were written from
WrittenFilesIntact ==
    \A i \in 1..Len(writes) :
        writes[i] # SummaryPath =>
            /\ writes[i] \in DOMAIN files
            /\ files[writes[i]] = CsvRows(kl_log[i])

\* C17: when the fetch or the CSV write of a pair fails with an unrecovered
\* error, the run ends in failure: once the last attempt of a request has
\* failed, main is still inside that fetch or has failed, and the pair's file
\* is not written; in the failed run the failing pair is the last one fetched,
\* only the files of the earlier pairs were written without error, these are
\* intact, and there is no summary file.
C17_AbortOnFatalError ==
    /\ FetchFailed =>
           /\ mpc \in {"fetch", "failed"}
           /\ CandlePath(symbol, interval) \notin DOMAIN files
    /\ PairFailed =>
           /\ Len(fetched) = Len(writes) + 1
           /\ SummaryPath \notin DOMAIN files
           /\ WrittenFilesIntact

\* a --start or --end text that is given and does not parse
MalformedDate(a) ==
    \/ Given(a.start) /\ a.start[1] \in MalformedTexts
    \/ Given(a.end) /\ a.end[1] \in MalformedTexts

\* C18: with a malformed --start or --end the run fails with the parse error
\* while resolving the range: no pair is fetched, no GET is issued and no
\* file is written.
C18_MalformedDateAborts ==
    MalformedDate(args) =>
        /\ mpc \in {"range", "failed"}
        /\ mpc = "failed" => m_error = "ValueError"
        /\ fetched = <<>>
        /\ getlog = <<>>
        /\ requests = <<>>
        /\ files = <<>>
        /\ writes = <<>>

\* a run with a valid --end and a malformed --start has failed
C18_Witness ==
    /\ mpc = "failed"
    /\ m_error = "ValueError"
    /\ args.end = <<"1970-01-02">>
    /\ args.start = <<"1970-13-01">>

\* C19: the price and volume fields reach the candle file as the decimal
\* text the upstream supplied: row j of a written candle file carries the
\* close, volume and quote volume texts of the upstream candle it was made of.
C19_ExactDecimalText ==
    \A i \in 1..Len(writes) :
        writes[i] # SummaryPath =>
            \A j \in 1..Len(kl_log[i]) :
                LET row == files[writes[i]][j + 1]
                    api == UpstreamRow(kl_log[i][j].open_time_ms)
                IN  /\ row.close = api.close
                    /\ row.volume = api.volume
                    /\ row.quote_volume = api.quote_volume

\* the position of the pair (sym, itv) in the order of the pairs
PairIndex(a, sym, itv) ==
    CHOOSE i \in 1..(Len(a.symbols) * Len(a.intervals)) :
        fetched[i] = <<sym, itv>>

\* the summary rows the claim describes: one per symbol, from its 1h series
ExpectedSummaryRows(a) ==
    IF \E i \in 1..Len(a.intervals) : a.intervals[i] = "1h"
    THEN [s \in 1..Len(a.symbols) |->
             SummaryRow(a.symbols[s],
                        calc_metrics(kl_log[PairIndex(a, a.symbols[s], "1h")],
                                     DayMs))]
    ELSE <<>>

\* C20: in a run that completes every pair was fetched and written, the
\* summary file is written exactly once and last, and it holds the header
\* followed by one row per symbol in the order of the symbols, each computed
\* from the symbol's own 1h series, when "1h" is among the intervals, and
\* the header alone when it is not.
C20_SummaryOnceAtEnd ==
    mpc = "done" =>
        /\ Len(fetched) = Len(args.symbols) * Len(args.intervals)
        /\ Len(writes) = Len(fetched) + 1
        /\ Last(writes) = SummaryPath
        /\ \A i \in 1..Len(fetched) : writes[i] = CandlePath(fetched[i][1], fetched[i][2])
        /\ files[SummaryPath] = <<SummaryHeader>> \o ExpectedSummaryRows(args)

\* a completed run over two symbols with "1h" second among the intervals,
\* whose rows differ
C20_Witness ==
    /\ mpc = "done"
    /\ args.symbols = <<"BTCUSDT", "ETHUSDT">>
    /\ args.intervals = <<"4h", "1h">>
    /\ Len(files[SummaryPath]) = 3
    /\ files[SummaryPath][2].symbol = "BTCUSDT"
    /\ files[SummaryPath][2].price_change_90d_pct = "5.000000"
    /\ files[SummaryPath][3].symbol = "ETHUSDT"
    /\ files[SummaryPath][3].price_change_90d_pct = "-4.761905"

(***************************************************************************)
(* Claims about the pagination cursor of fetch_klines.                     *)
(***************************************************************************)
\* the final row of the page before the k-th request: the loop goes on only
\* after a page of `limit` rows, so the pages before the k-th request are the
\* first k-1 blocks of `limit` records of `out`
FinalRowBefore(k) == out[(k - 1) * limit]

\* the inter-page delays slept so far (under Spec nothing else sleeps)
DelaysSlept == Len(SelectSeq(sleeps, LAMBDA w : w = InterPageDelayMs))

\* C21 (Spec): the first page request carries startTime = start_ms, every
\* later one the open time of the final row of the page before it plus 1;
\* every request carries endTime = end_ms and limit = 1000; and one
\* inter-page delay, and no other sleep, was slept between each two
\* consecutive requests (one more when the delay before the next request
\* has been slept and that request is not yet issued).
C21_CursorAdvancement ==
    /\ \A k \in 1..Len(requests) :
          /\ requests[k].startTime =
                IF k = 1 THEN start_ms
                ELSE FinalRowBefore(k).open_time_ms + 1
          /\ requests[k].endTime = end_ms
          /\ requests[k].limit = 1000
    /\ Len(out) >= (Len(requests) - 1) * limit
    /\ DelaysSlept = Len(sleeps)
    /\ DelaysSlept = IF fpc = "loop" THEN Len(requests) ELSE Len(requests) - 1

\* a second request was made after a full page whose final row opens at 1,
\* above its other rows and above start_ms
C21_Witness ==
    /\ Len(requests) = 2
    /\ start_ms = 0
    /\ requests[1].startTime = 0
    /\ out[1].open_time_ms = 0
    /\ out[limit].open_time_ms = 1
    /\ requests[2].startTime = 2
    /\ sleeps = <<InterPageDelayMs>>

(***************************************************************************)
(* fetch_klines against an upstream whose every page request returns a     *)
(* page, and whose non-empty pages end with a row that opens at or after   *)
(* the requested startTime.  The program runs on: a step is taken whenever *)
(* one is possible.                                                        *)
(***************************************************************************)
\* the number of cursor values from s up to e (one request is always made)
RequestBound(s, e) == IF s <= e THEN e - s + 1 ELSE 1

\* the page answers the current request at or after its startTime
AnswersAtOrAfterCursor(page) ==
    Len(page) = 0 \/ LastOpen(page) >= requests[Len(requests)].startTime

GetOkAdvancing == GetOk /\ AnswersAtOrAfterCursor(rr_value')

\* the ranges whose cursor values the explored page requests can cover
InitProgress ==
    /\ transport = MockTransport
    /\ InitRetryVars
    /\ InitMainIdle
    /\ symbol = "BTCUSDT"
    /\ interval = "1h"
    /\ start_ms \in StartChoices
    /\ end_ms \in Times
    /\ RequestBound(start_ms, end_ms) <= MaxPages
    /\ fpc = "loop"
    /\ next_start = start_ms
    /\ out = <<>>
    /\ requests = <<>>
    /\ result = <<>>

NextProgress ==
    \/ FetchRequest
    \/ GetOkAdvancing
    \/ FetchPage

SpecProgress == InitProgress /\ [][NextProgress]_vars /\ WF_vars(NextProgress)

\* the cursor grows from each request to the next, and the requests are no
\* more than the cursor values up to end_ms
CursorsIncrease ==
    /\ \A k \in 1..(Len(requests) - 1) :
          requests[k].startTime < requests[k + 1].startTime
    /\ \A j, k \in 1..Len(requests) :
          requests[j].startTime = requests[k].startTime => j = k
    /\ Len(requests) <= RequestBound(start_ms, end_ms)

\* C22 (SpecProgress): when every page request returns and every page ends
\* with a row that opens at or after the requested startTime, the startTime
\* strictly increases from one request to the next, no startTime is requested
\* twice, the requests are at most the cursor values from start_ms to end_ms,
\* and fetch_klines eventually returns.
C22_ForwardProgress == []CursorsIncrease /\ <>(fpc = "done")

\* the call returned after two requests with cursors 0 and 1
C22_Witness ==
    /\ fpc = "done"
    /\ Len(requests) = 2
    /\ requests[1].startTime = 0
    /\ requests[2].startTime = 1

(***************************************************************************)
(* _request_with_retry called directly, the call running on: a step is     *)
(* taken whenever one is possible (every GET is answered or fails).        *)
(***************************************************************************)
SpecRetryFair == InitRetry /\ [][NextRetry]_vars /\ WF_vars(NextRetry)

\* one counter for all failures: after k retryable failures of any kinds the
\* call is at attempt k + 1 while k < retries, and is over once k = retries
SharedBudget ==
    rpc # "idle" =>
        /\ Len(getlog) <= retries
        /\ AllIn(getlog, RetryableErrors) =>
              IF Len(getlog) < retries
              THEN rpc = "get" /\ attempt = Len(getlog) + 1
              ELSE rpc \in {"raised", "returned"}

\* C23 (SpecRetryFair): connection errors, timeouts and 429 responses use up
\* one attempt counter: whatever the outcomes of the GETs, a call makes at
\* most `retries` GETs, k failures of mixed kinds leave it at attempt k + 1
\* just as k failures of one kind do, `retries` failures end it, and every
\* call eventually ends (returns or raises).
C23_SharedRetryBudget == []SharedBudget /\ <>(rpc \in {"returned", "raised"})

\* one 429 and one timeout used up a budget of two
C23_Witness ==
    /\ retries = 2
    /\ getlog = <<"HTTP429", "Timeout">>
    /\ rpc = "raised"
    /\ sleeps = <<2000>>

(***************************************************************************)
(* The order of the work of main, checked under SpecMain.                  *)
(***************************************************************************)
\* the k-th pair in symbol-major, interval-minor order
PairAt(a, k) ==
    <<a.symbols[(k - 1) \div Len(a.intervals) + 1],
      a.intervals[((k - 1) % Len(a.intervals)) + 1]>>

\* the text of a candle file for the series kl: the header, then the row of
\* each record, in the order of the series
IsFileOf(text, kl) ==
    /\ Len(text) = Len(kl) + 1
    /\ text[1] = CsvHeader
    /\ \A j \in 1..Len(kl) : text[j + 1] = CsvRow(kl[j])

\* C24: the pairs are fetched in symbol-major, interval-minor order; while a
\* pair is being fetched every request is for that pair and the files of all
\* the pairs before it are written, one per pair, in the same order; the file
\* of a pair holds the header and one row per record of the series its fetch
\* returned, in series order; and different pairs have different paths.
C24_SequentialPipeline ==
    /\ \A k \in 1..Len(fetched) : fetched[k] = PairAt(args, k)
    /\ Len(writes) <= Len(fetched) + 1
    /\ \A k \in 1..Len(writes) :
          k <= Len(fetched) =>
             /\ writes[k] = CandlePath(fetched[k][1], fetched[k][2])
             /\ IsFileOf(files[writes[k]], kl_log[k])
    /\ \A j, k \in 1..Len(writes) : j # k => writes[j] # writes[k]
    /\ mpc = "fetch" =>
          /\ Len(writes) = Len(fetched) - 1
          /\ \A r \in 1..Len(requests) :
                <<requests[r].symbol, requests[r].interval>> = Last(fetched)
    /\ (mpc = "fetch" /\ fpc = "done") => result = PostProcess(out, end_ms)

\* the fourth pair is being requested after three files were written, the
\* second of them with two candles
C24_Witness ==
    /\ mpc = "fetch"
    /\ args.symbols = <<"BTCUSDT", "ETHUSDT">>
    /\ args.intervals = <<"4h", "1h">>
    /\ Len(fetched) = 4
    /\ Len(requests) = 1
    /\ requests[1].symbol = "ETHUSDT"
    /\ requests[1].interval = "1h"
    /\ Len(writes) = 3
    /\ Len(files[CandlePath("BTCUSDT", "1h")]) = 3
    /\ Len(files[CandlePath("BTCUSDT", "4h")]) = 2

=============================================================================
